---- MODULE Spec2Model ----
(***************************************************************************)
(* Model of src/Python/app.py: the entries table (SQLite), the summary     *)
(* engine compute_summary and the three Flask handlers index, add_entry    *)
(* and delete_entry.                                                       *)
(*                                                                         *)
(* Representation of Python values                                         *)
(*   - texts whose characters matter (the value text, dates, month keys)   *)
(*     are tuples of one-character strings: "2025-01" is                   *)
(*     <<"2","0","2","5","-","0","1">>, the empty text is <<>>;            *)
(*   - texts that are only compared for equality (type, category,          *)
(*     description) are TLA+ strings;                                      *)
(*   - a missing form field / query parameter is a key that is not in the  *)
(*     DOMAIN of the form record;                                          *)
(*   - floats are binary floating-point numbers with Precision significant *)
(*     bits, rounded to nearest, ties to even, held as an integer count of *)
(*     halves (1 unit = 0.5).  A Python float has 53 significant bits; the *)
(*     reduced precision keeps the rounding of float addition within       *)
(*     TLC's integers.                                                     *)
(***************************************************************************)
EXTENDS Integers, Sequences, FiniteSets, TLC

VARIABLES rows, seq, assigned, response

vars == <<rows, seq, assigned, response>>

\* ------------------------------------------------------------------ bounds
\* ids handed out in one behaviour (caps the AUTOINCREMENT counter)
MaxId == 3
\* length of the entry lists drawn for compute_summary in SpecSummary
MaxLen == 2
\* significant bits of the model's floats
Precision == 3

\* ------------------------------------------------------------ Python values
\* Python None / SQL NULL in a string-valued position
None == "<None>"
\* month_key=None, the default argument of compute_summary
NoMonthKey == <<"<None>">>

Digits == <<"0", "1", "2", "3", "4", "5", "6", "7", "8", "9">>

IsDigit(c) == \E i \in 1..10 : Digits[i] = c

DigitValue(c) == (CHOOSE i \in 1..10 : Digits[i] = c) - 1

\* code point of the characters the model's texts are made of
Ord(c) ==
    CASE c = "+" -> 43
      [] c = "," -> 44
      [] c = "-" -> 45
      [] c = "." -> 46
      [] IsDigit(c) -> 48 + DigitValue(c)
      [] c = "a" -> 97
      [] OTHER -> 120

Min(a, b) == IF a <= b THEN a ELSE b

Max(a, b) == IF a >= b THEN a ELSE b

\* s[:n]
Prefix(s, n) == SubSeq(s, 1, Min(n, Len(s)))

\* s.startswith(p)
StartsWith(s, p) == Len(p) <= Len(s) /\ SubSeq(s, 1, Len(p)) = p

\* s < t on texts: code point by code point, a proper prefix is smaller
\* (Python str comparison and SQLite's BINARY collation agree on this)
StrLess(s, t) ==
    LET n == Min(Len(s), Len(t))
        differ == {i \in 1..n : s[i] /= t[i]}
    IN  IF differ = {} THEN Len(s) < Len(t)
        ELSE LET k == CHOOSE i \in differ : \A j \in differ : i <= j
             IN  Ord(s[k]) < Ord(t[k])

\* s.replace(",", ".")
ReplaceComma(s) == [i \in 1..Len(s) |-> IF s[i] = "," THEN "." ELSE s[i]]

\* ------------------------------------------------------------------ floats
RECURSIVE Pow(_, _)
Pow(b, n) == IF n = 0 THEN 1 ELSE b * Pow(b, n - 1)

Abs(n) == IF n < 0 THEN -n ELSE n

\* the power of two q such that |n| / q has exactly Precision bits
RECURSIVE Quantum(_, _)
Quantum(n, q) == IF n < q * Pow(2, Precision) THEN q ELSE Quantum(n, 2 * q)

\* n divided by q, rounded to the nearest integer, ties to even (n >= 0)
RoundDiv(n, q) ==
    LET m == n \div q
        r == n % q
    IN  IF 2 * r > q \/ (2 * r = q /\ m % 2 = 1) THEN m + 1 ELSE m

\* the float nearest to the exact number n (in units)
Round(n) ==
    LET q == Quantum(Abs(n), 1)
        m == RoundDiv(Abs(n), q) * q
    IN  IF n < 0 THEN -m ELSE m

\* a + b on floats
FAdd(a, b) == Round(a + b)

\* a - b on floats
FSub(a, b) == Round(a - b)

\* value of a tuple of digits read as a decimal numeral
RECURSIVE Decimal(_)
Decimal(ds) ==
    IF ds = <<>> THEN 0
    ELSE 10 * Decimal(SubSeq(ds, 1, Len(ds) - 1)) + DigitValue(ds[Len(ds)])

\* float(text) on texts made of digits, signs, '.', ',' and letters: an
\* optional sign, then digits with at most one '.', at least one digit.
\* ok = FALSE stands for ValueError.  The value is the decimal number
\* rounded once to the nearest float.
ParseFloat(text) ==
    LET signed == text /= <<>> /\ text[1] \in {"+", "-"}
        body == IF signed THEN Tail(text) ELSE text
        dots == {i \in 1..Len(body) : body[i] = "."}
        ok == /\ Cardinality(dots) <= 1
              /\ \A i \in (1..Len(body)) \ dots : IsDigit(body[i])
              /\ Len(body) - Cardinality(dots) >= 1
        k == IF dots = {} THEN 0 ELSE Len(body) - (CHOOSE i \in dots : TRUE)
        n == 2 * Decimal(SelectSeq(body, IsDigit))
        q == Quantum(n \div Pow(10, k), 1)
        m == RoundDiv(n, q * Pow(10, k)) * q
    IN  IF ok
        THEN [ok |-> TRUE, value |-> IF signed /\ text[1] = "-" THEN -m ELSE m]
        ELSE [ok |-> FALSE, value |-> 0]

\* -------------------------------------------------------------- categories
\* class Category, in declaration order
Category ==
    <<"Recarga", "Supermercado", "Lanches", "Ensino", "Farmácia",
      "Parcelas Cartão", "Contas de Casa", "Thais", "Outros">>

\* Category.OUTROS.value
OUTROS == Category[Len(Category)]

\* ------------------------------------------------------------ the database
\* one row of the entries table
Row(id, type, category, source, value, date) ==
    [id |-> id, type |-> type, category |-> category, source |-> source,
     value |-> value, date |-> date]

\* the table after init_db: no rows, the AUTOINCREMENT counter
\* (sqlite_sequence) at 0
init_db ==
    /\ rows = {}
    /\ seq = 0

LargestRowid(table) ==
    IF table = {} THEN 0
    ELSE CHOOSE n \in {r.id : r \in table} : \A r \in table : r.id <= n

\* mutant: INTEGER PRIMARY KEY without AUTOINCREMENT, one more than the
\* largest rowid now in the table
NextRowid_WithoutAutoincrement(table, counter) == LargestRowid(table) + 1

\* the rowid INTEGER PRIMARY KEY AUTOINCREMENT gives the next INSERT: one
\* more than the largest rowid the table has ever held
NextRowid(table, counter) == Max(LargestRowid(table), counter) + 1

\* mutant: ORDER BY date DESC, id
OrderedBefore_IdAscending(a, b) ==
    \/ StrLess(b.date, a.date)
    \/ (a.date = b.date /\ a.id < b.id)

\* ORDER BY date DESC, id DESC: a comes before b
OrderedBefore(a, b) ==
    \/ StrLess(b.date, a.date)
    \/ (a.date = b.date /\ a.id > b.id)

RECURSIVE OrderBy(_)
OrderBy(table) ==
    IF table = {} THEN <<>>
    ELSE LET first == CHOOSE r \in table :
                          \A o \in table \ {r} : OrderedBefore(r, o)
         IN  <<first>> \o OrderBy(table \ {first})

\* SELECT * FROM entries ORDER BY date DESC, id DESC
get_all_entries(table) == OrderBy(table)

\* mutant: DELETE FROM entries WHERE id <= ?
DeleteWhereId_UpTo(table, entry_id) == {r \in table : r.id > entry_id}

\* DELETE FROM entries WHERE id = ?
DeleteWhereId(table, entry_id) == {r \in table : r.id /= entry_id}

\* ------------------------------------------------------------ the summary
\* today.strftime("%Y-%m") of a date text YYYY-MM-DD
get_current_month_key(today) == Prefix(today, 7)

\* {cat.value: 0.0 for cat in Category}: a dict, as the sequence of its
\* items in insertion order
SeedTotals == [i \in 1..Len(Category) |-> [key |-> Category[i], total |-> 0]]

HasKey(dict, k) == \E i \in 1..Len(dict) : dict[i].key = k

\* dict[k] (k a key of dict)
Lookup(dict, k) == dict[CHOOSE i \in 1..Len(dict) : dict[i].key = k].total

\* dict[k] = 0.0 for a new key k
InsertZero(dict, k) == Append(dict, [key |-> k, total |-> 0])

\* dict[k] += value
AddTo(dict, k, value) ==
    [i \in 1..Len(dict) |->
        IF dict[i].key = k
        THEN [key |-> k, total |-> FAdd(dict[i].total, value)]
        ELSE dict[i]]

\* mutant: e["category"], without the fallback to Outros
CategoryOr_NoFallback(category) == category

\* e["category"] or Category.OUTROS.value
CategoryOr(category) == IF category \in {None, ""} THEN OUTROS ELSE category

\* one entry added to the totals (lines 92-100 of the loop)
Accumulate(acc, e) ==
    IF e.type = "income"
    THEN [acc EXCEPT !.total_income = FAdd(@, e.value)]
    ELSE IF e.type = "expense"
    THEN LET cat == CategoryOr(e.category)
             seeded == IF HasKey(acc.category_totals, cat)
                       THEN acc.category_totals
                       ELSE InsertZero(acc.category_totals, cat)
         IN  [acc EXCEPT !.total_expenses = FAdd(@, e.value),
                         !.category_totals = AddTo(seeded, cat, e.value)]
    ELSE acc

\* mutant: the loop body without the startswith(month_key) test
SummaryStep_NoMonthFilter(acc, e, month_key) ==
    IF e.date = <<>> THEN acc ELSE Accumulate(acc, e)

\* the body of the loop of compute_summary for one entry e
SummaryStep(acc, e, month_key) ==
    IF e.date = <<>> THEN acc
    ELSE IF ~StartsWith(e.date, month_key) THEN acc
    ELSE Accumulate(acc, e)

RECURSIVE SummaryLoop(_, _, _, _)
SummaryLoop(acc, entries, i, month_key) ==
    IF i > Len(entries) THEN acc
    ELSE SummaryLoop(SummaryStep(acc, entries[i], month_key), entries, i + 1,
                     month_key)

\* compute_summary(entries, month_key); today is the clock that
\* get_current_month_key reads when month_key is None
compute_summary(entries, month_key, today) ==
    LET key == IF month_key = NoMonthKey
               THEN get_current_month_key(today)
               ELSE month_key
        acc == SummaryLoop([total_income |-> 0, total_expenses |-> 0,
                            category_totals |-> SeedTotals],
                           entries, 1, key)
    IN  [month_key |-> key,
         total_income |-> acc.total_income,
         total_expenses |-> acc.total_expenses,
         balance |-> FSub(acc.total_income, acc.total_expenses),
         category_totals |-> acc.category_totals]

\* ---------------------------------------------------------------- requests
\* texts used in the requests
D_0101 == <<"2", "0", "2", "5", "-", "0", "1", "-", "0", "1">>
D_0102 == <<"2", "0", "2", "5", "-", "0", "1", "-", "0", "2">>
D_0201 == <<"2", "0", "2", "5", "-", "0", "2", "-", "0", "1">>
D_Year == <<"2", "0", "2", "5">>
M_01 == <<"2", "0", "2", "5", "-", "0", "1">>
M_02 == <<"2", "0", "2", "5", "-", "0", "2">>

\* what datetime.today().strftime("%Y-%m-%d") may return
ClockDates == {D_0102, D_0201}

\* the POST /add forms: request.form, a record of the fields sent
Forms ==
    { \* accepted
      [type |-> "income", value |-> <<"2">>, description |-> "salario",
       date |-> D_0101],
      [type |-> "expense", value |-> <<"2", ",", "5">>,
       category |-> "Lanches", date |-> D_0102],
      [type |-> "expense", value |-> <<"0", ".", "5">>, category |-> "",
       description |-> "", date |-> D_0101],
      [type |-> "expense", value |-> <<"2">>, category |-> "Pet",
       date |-> D_0101],
      [type |-> "income", value |-> <<"1", ",", "5">>,
       category |-> "Lanches", date |-> <<>>],
      [type |-> "expense", value |-> <<"3">>, date |-> D_Year],
      \* rejected
      [type |-> "transfer", value |-> <<"2">>, date |-> D_0101],
      [type |-> "Income", value |-> <<"2">>, date |-> D_0101],
      [value |-> <<"2">>, date |-> D_0101],
      [type |-> "income", value |-> <<"-", "a">>, date |-> D_0101],
      [type |-> "expense", value |-> <<"1", ",", "2", ",", "5">>,
       category |-> "Lanches", date |-> D_0102],
      [type |-> "income", date |-> D_0101],
      [type |-> "gift", value |-> <<>>, date |-> D_0102] }

\* the GET / query strings: request.args
Queries ==
    { [lang |-> "pt"],
      [month |-> <<>>],
      [month |-> M_01],
      [month |-> M_02],
      [month |-> D_Year] }

\* the ids POST /delete/<int:entry_id> is called with
EntryIds == 1..(MaxId + 1)

\* d.get(key) or default, where empty is the falsy text
GetOr(d, key, empty, default) ==
    IF key \in DOMAIN d /\ d[key] /= empty THEN d[key] ELSE default

\* redirect(url_for("index")), returned at the statement `at`
Redirect(at) == [ret |-> "redirect", at |-> at]

\* ---------------------------------------------------------------- handlers
RECURSIVE SortedReverse(_)
\* sorted(S, reverse=True) for a set of texts
SortedReverse(S) ==
    IF S = {} THEN <<>>
    ELSE LET top == CHOOSE s \in S : \A t \in S \ {s} : StrLess(t, s)
         IN  <<top>> \o SortedReverse(S \ {top})

\* GET /
index(query, today) ==
    LET entries == get_all_entries(rows)
        month_key == GetOr(query, "month", <<>>, get_current_month_key(today))
        summary == compute_summary(entries, month_key, today)
        months == SortedReverse({Prefix(entries[i].date, 7) :
                                    i \in {j \in 1..Len(entries) :
                                              entries[j].date /= <<>>}})
    IN  /\ response' = [ret |-> "index", entries |-> entries,
                        summary |-> summary, current_month |-> month_key,
                        months |-> months]
        /\ UNCHANGED <<rows, seq, assigned>>

\* mutant: the parameters bound in the order (category, type, ...)
Insert_SwappedColumns(entry_type, category, description, value, date_str) ==
    LET id == NextRowid(rows, seq)
    IN  /\ rows' = rows \cup
                     {Row(id, category, entry_type, description, value, date_str)}
        /\ seq' = id
        /\ assigned' = Append(assigned, id)

\* INSERT INTO entries (type, category, source, value, date) VALUES (...)
Insert(entry_type, category, description, value, date_str) ==
    LET id == NextRowid(rows, seq)
    IN  /\ rows' = rows \cup
                     {Row(id, entry_type, category, description, value, date_str)}
        /\ seq' = id
        /\ assigned' = Append(assigned, id)

\* mutant: only a missing type is rejected
TypeRejected_OnlyMissing(entry_type) == entry_type = None

\* entry_type not in ("income", "expense")
TypeRejected(entry_type) == entry_type \notin {"income", "expense"}

\* POST /add
add_entry(form, today) ==
    LET entry_type == IF "type" \in DOMAIN form THEN form.type ELSE None
        raw_value == ReplaceComma(GetOr(form, "value", <<>>, <<>>))
        description == GetOr(form, "description", "", "")
        category == GetOr(form, "category", "", None)
        date_str == GetOr(form, "date", <<>>, today)
        parsed == ParseFloat(raw_value)
    IN  IF ~parsed.ok
        THEN /\ response' = Redirect("add_entry: except ValueError")
             /\ UNCHANGED <<rows, seq, assigned>>
        ELSE IF TypeRejected(entry_type)
        THEN /\ response' = Redirect("add_entry: type not in")
             /\ UNCHANGED <<rows, seq, assigned>>
        ELSE /\ Insert(entry_type,
                       IF entry_type = "expense" /\ category \in {None, ""}
                       THEN OUTROS ELSE category,
                       description, parsed.value, date_str)
             /\ response' = Redirect("add_entry: inserted")

\* POST /delete/<int:entry_id>
delete_entry(entry_id) ==
    /\ rows' = DeleteWhereId(rows, entry_id)
    /\ response' = Redirect("delete_entry")
    /\ UNCHANGED <<seq, assigned>>

\* ----------------------------------------------------------- specification
\* the application after init_db, before any request; assigned is the
\* history of the ids the store has handed out
Init ==
    /\ init_db
    /\ assigned = <<>>
    /\ response = [ret |-> "none"]

Index == \E query \in Queries, today \in ClockDates : index(query, today)

AddEntry ==
    /\ seq < MaxId
    /\ \E form \in Forms, today \in ClockDates : add_entry(form, today)

DeleteEntry == \E entry_id \in EntryIds : delete_entry(entry_id)

Next == Index \/ AddEntry \/ DeleteEntry

Spec == Init /\ [][Next]_vars

\* ------------------------------------------- compute_summary on any list
\* the fields of the entries handed to compute_summary directly; unlike the
\* rows add_entry stores they include a type that is neither income nor
\* expense, an empty date and an empty or NULL category on an expense
ListTypes == {"income", "expense", "transfer"}
ListCategories == {None, "", "Lanches", "Pet"}
ListValues == {1, 5}
ListDates == {<<>>, D_0101, D_0201}

\* a category only on expenses; one value for the entries whose type or
\* category is the special case
ListEntries ==
    {e \in {Row(0, t, c, "", v, d) :
               t \in ListTypes, c \in ListCategories, v \in ListValues,
               d \in ListDates} :
        /\ e.type /= "expense" => e.category = None
        /\ (e.type = "transfer" \/ e.category = "") => e.value = 1}

\* the month_key arguments, NoMonthKey for a call without month_key
MonthKeyArgs == {NoMonthKey, <<>>, M_01, D_Year}

\* a call of compute_summary with a list of at most MaxLen entries, ids
\* numbered from 1
InitSummary ==
    /\ init_db
    /\ assigned = <<>>
    /\ \E n \in 0..MaxLen :
          \E f \in [1..n -> ListEntries], month_key \in MonthKeyArgs :
             response = [ret |-> "call",
                         entries |-> [i \in 1..n |-> [f[i] EXCEPT !.id = i]],
                         month_key |-> month_key]

ComputeSummary ==
    /\ response.ret = "call"
    /\ \E today \in ClockDates :
          response' = [ret |-> "summary", entries |-> response.entries,
                       month_key |-> response.month_key,
                       summary |-> compute_summary(response.entries,
                                                   response.month_key, today)]
    /\ UNCHANGED <<rows, seq, assigned>>

NextSummary == ComputeSummary

SpecSummary == InitSummary /\ [][NextSummary]_vars

\* ------------------------------------------------- vocabulary of the claims
\* the float sum of a sequence of amounts, added from left to right
RECURSIVE SumLeft(_)
SumLeft(values) ==
    IF values = <<>> THEN 0
    ELSE FAdd(SumLeft(SubSeq(values, 1, Len(values) - 1)), values[Len(values)])

AmountsOf(entries) == [i \in 1..Len(entries) |-> entries[i].value]

\* the entry counts for month_key: its date is not empty and starts with it
InMonth(e, month_key) ==
    /\ e.date /= <<>>
    /\ Len(month_key) <= Len(e.date)
    /\ \A i \in 1..Len(month_key) : e.date[i] = month_key[i]

\* the entries that count for month_key, in list order
Counted(entries, month_key) ==
    LET Test(e) == InMonth(e, month_key)
    IN  SelectSeq(entries, Test)

\* the entries of one type among the counted ones
OfType(counted, type) ==
    LET Test(e) == e.type = type
    IN  SelectSeq(counted, Test)

\* the category an expense is counted under
Resolved(e) == IF e.category = None \/ e.category = "" THEN "Outros" ELSE e.category

\* the expenses counted under category c among the counted entries
OfCategory(counted, c) ==
    LET Test(e) == e.type = "expense" /\ Resolved(e) = c
    IN  SelectSeq(counted, Test)

KnownCategories ==
    {"Recarga", "Supermercado", "Lanches", "Ensino", "Farmácia",
     "Parcelas Cartão", "Contas de Casa", "Thais", "Outros"}

\* a call of compute_summary has returned, month_key given explicitly
Summarised == response.ret = "summary" /\ response.month_key /= NoMonthKey

\* ---------------------------------------------------------------------- C1
\* C1 as stated: for every entry list and explicit month_key, total_income
\* is the sum of the amounts of the income entries whose date starts with
\* month_key, total_expenses the same sum over the expense entries, and
\* balance is total_income minus total_expenses.
C1_AsStated ==
    Summarised =>
        LET es == response.entries
            mk == response.month_key
            Income(e) == e.type = "income" /\ StartsWith(e.date, mk)
            Expense(e) == e.type = "expense" /\ StartsWith(e.date, mk)
        IN  /\ response.summary.total_income
                 = SumLeft(AmountsOf(SelectSeq(es, Income)))
            /\ response.summary.total_expenses
                 = SumLeft(AmountsOf(SelectSeq(es, Expense)))
            /\ response.summary.balance
                 = Round(response.summary.total_income
                         - response.summary.total_expenses)

\* C1 amended: the sums run over the entries whose date is not empty and
\* starts with month_key (an entry with an empty date counts for no
\* month_key, not even the empty one); balance is total_income minus
\* total_expenses.
C1_Totals ==
    Summarised =>
        LET mk == response.month_key
            counted == Counted(response.entries, mk)
        IN  /\ response.summary.total_income
                 = SumLeft(AmountsOf(OfType(counted, "income")))
            /\ response.summary.total_expenses
                 = SumLeft(AmountsOf(OfType(counted, "expense")))
            /\ response.summary.balance
                 = Round(response.summary.total_income
                         - response.summary.total_expenses)
            /\ response.summary.month_key = mk

\* a summary for 2025-01 over an income of that month and an income of
\* 2025-02, which is left out
C1_Witness ==
    /\ Summarised
    /\ response.month_key = M_01
    /\ response.summary.total_income = 5
    /\ response.summary.balance = 5
    /\ \E i \in 1..Len(response.entries) :
          /\ response.entries[i].date = D_0201
          /\ response.entries[i].type = "income"

\* --------------------------------------------------------------------- C10
\* C10: category_totals has every known category as a key; the value of
\* every key c is the sum of the amounts of the in-month expenses whose
\* resolved category is c (empty or NULL resolves to Outros, an unknown
\* category has its own key); a known category without in-month expense
\* is zero.
C10_CategoryTotals ==
    response.ret = "summary" =>
        LET es == response.entries
            mk == response.summary.month_key
            counted == Counted(es, mk)
            totals == response.summary.category_totals
            keys == {totals[i].key : i \in 1..Len(totals)}
        IN  /\ KnownCategories \subseteq keys
            /\ keys = KnownCategories \cup
                      {Resolved(es[i]) :
                          i \in {j \in 1..Len(es) :
                                    es[j].type = "expense" /\ InMonth(es[j], mk)}}
            /\ Cardinality(keys) = Len(totals)
            /\ \A i \in 1..Len(totals) :
                  totals[i].total
                     = SumLeft(AmountsOf(OfCategory(counted, totals[i].key)))
            /\ \A c \in KnownCategories :
                  OfCategory(counted, c) = <<>> => Lookup(totals, c) = 0

\* a summary with an in-month expense of an unknown category and one
\* without category
C10_Witness ==
    /\ response.ret = "summary"
    /\ HasKey(response.summary.category_totals, "Pet")
    /\ Lookup(response.summary.category_totals, "Pet") = 5
    /\ Lookup(response.summary.category_totals, "Outros") = 1
    /\ \E i \in 1..Len(response.entries) :
          /\ response.entries[i].category = None
          /\ response.entries[i].type = "expense"
          /\ InMonth(response.entries[i], response.summary.month_key)

\* ------------------------------------------------ claims about the store
\* the page GET / has rendered
Rendered == response.ret = "index"

Ids(table) == {r.id : r \in table}

\* the month keys the summaries are compared under
MonthKeys == {M_01, M_02, D_Year}

AnyDay == CHOOSE today \in ClockDates : TRUE

SameTotals(a, b) ==
    /\ a.total_income = b.total_income
    /\ a.total_expenses = b.total_expenses
    /\ a.balance = b.balance
    /\ a.category_totals = b.category_totals

\* the sequence without its i-th element
RemoveAt(entries, i) ==
    SubSeq(entries, 1, i - 1) \o SubSeq(entries, i + 1, Len(entries))

\* ---------------------------------------------------------------------- C2
\* C2 as stated: the sum of all values of category_totals equals
\* total_expenses.
C2_CategorySum ==
    Rendered =>
        LET totals == response.summary.category_totals
        IN  SumLeft([i \in 1..Len(totals) |-> totals[i].total])
               = response.summary.total_expenses

\* ---------------------------------------------------------------------- C3
\* C3 as stated: for the month key index hands to compute_summary, removing
\* or adding an entry whose month key (the first 7 characters of its date)
\* differs from it leaves total_income, total_expenses, balance and
\* category_totals unchanged.
C3_FilterPurity ==
    Rendered =>
        LET es == response.entries
            mk == response.current_month
        IN  /\ \A i \in 1..Len(es) :
                  Prefix(es[i].date, 7) /= mk =>
                     SameTotals(compute_summary(RemoveAt(es, i), mk, AnyDay),
                                response.summary)
            /\ \A e \in ListEntries :
                  Prefix(e.date, 7) /= mk =>
                     SameTotals(compute_summary(Append(es, e), mk, AnyDay),
                                response.summary)

\* ---------------------------------------------------------------------- C4
\* C4: every id the store assigns is strictly greater than every id it
\* assigned before, so no id is reused, also not after the entry with the
\* largest id was deleted, and no two stored entries share an id.
C4_IdsNeverReused ==
    /\ \A i, j \in 1..Len(assigned) : i < j => assigned[i] < assigned[j]
    /\ \A r1, r2 \in rows : r1.id = r2.id => r1 = r2
    /\ \A r \in rows : \E i \in 1..Len(assigned) : assigned[i] = r.id

\* the entry just inserted got id 2 although the table was empty: id 1,
\* the largest, had been deleted before
C4_Witness ==
    /\ response = Redirect("add_entry: inserted")
    /\ assigned = <<1, 2>>
    /\ Ids(rows) = {2}

\* ---------------------------------------------------------------------- C5
\* C5: get_all_entries returns every stored entry exactly once, by date
\* descending, ties on date by id descending; entries dated 2025-01-01
\* (id 1), 2025-01-02 (id 2), 2025-01-02 (id 3) come in the order 3, 2, 1.
C5_ListOrder ==
    LET es == get_all_entries(rows)
    IN  /\ Len(es) = Cardinality(rows)
        /\ {es[i] : i \in 1..Len(es)} = rows
        /\ \A i, j \in 1..Len(es) :
              i < j =>
                 \/ StrLess(es[j].date, es[i].date)
                 \/ (es[i].date = es[j].date /\ es[i].id > es[j].id)
        /\ {<<r.id, r.date>> : r \in rows}
              = {<<1, D_0101>>, <<2, D_0102>>, <<3, D_0102>>}
           => [i \in 1..Len(es) |-> es[i].id] = <<3, 2, 1>>

C5_Witness ==
    /\ {<<r.id, r.date>> : r \in rows}
          = {<<1, D_0101>>, <<2, D_0102>>, <<3, D_0102>>}
    /\ Rendered
    /\ [i \in 1..Len(response.entries) |-> response.entries[i].id] = <<3, 2, 1>>

\* ---------------------------------------------------------------------- C6
\* what one delete_entry(entry_id) step does to the table and, when it
\* removes a row, to the summary of every month key: the new totals are the
\* sums over the remaining rows and the fields the row did not feed are as
\* before.  Without such a row the table, of which the summary is a
\* function, is unchanged.
DeleteFrame(entry_id) ==
    LET hit == {r \in rows : r.id = entry_id}
        es == get_all_entries(rows)
        \* the table after the step, which the first conjunct says is rows'
        after == get_all_entries(rows \ hit)
    IN  /\ rows' = rows \ hit
        /\ Cardinality(hit) <= 1
        /\ DeleteWhereId(rows', entry_id) = rows'
        /\ hit /= {} =>
              LET r == CHOOSE r \in hit : TRUE
                  rest == RemoveAt(es, CHOOSE i \in 1..Len(es) : es[i] = r)
              IN  \A mk \in MonthKeys :
                     LET old == compute_summary(es, mk, AnyDay)
                         new == compute_summary(after, mk, AnyDay)
                         counted == Counted(rest, mk)
                         fed == InMonth(r, mk) /\ r.type \in {"income", "expense"}
                         c == Resolved(r)
                     IN  /\ ~fed => SameTotals(new, old)
                         /\ (fed /\ r.type = "income") =>
                               /\ new.total_income
                                    = SumLeft(AmountsOf(OfType(counted, "income")))
                               /\ new.total_expenses = old.total_expenses
                               /\ new.category_totals = old.category_totals
                         /\ (fed /\ r.type = "expense") =>
                               /\ new.total_income = old.total_income
                               /\ new.total_expenses
                                    = SumLeft(AmountsOf(OfType(counted, "expense")))
                               /\ \A i \in 1..Len(old.category_totals) :
                                     LET k == old.category_totals[i].key
                                     IN  k /= c =>
                                            /\ HasKey(new.category_totals, k)
                                            /\ Lookup(new.category_totals, k)
                                                  = old.category_totals[i].total
                               /\ IF HasKey(new.category_totals, c)
                                  THEN Lookup(new.category_totals, c)
                                          = SumLeft(AmountsOf(OfCategory(counted, c)))
                                  ELSE OfCategory(counted, c) = <<>>
                         /\ new.balance = Round(new.total_income - new.total_expenses)

\* C6: delete_entry(id) removes exactly the entry with that id and leaves
\* every other entry unchanged, so the summary loses exactly that entry's
\* contribution; without such an entry the entries and the summary stay as
\* they are, so a second delete of the same id changes nothing.
C6_DeleteExactlyOne ==
    [][\A entry_id \in EntryIds : delete_entry(entry_id) => DeleteFrame(entry_id)]_vars

\* a delete has removed an entry and left others
C6_Witness ==
    /\ response = Redirect("delete_entry")
    /\ rows /= {}
    /\ Cardinality(rows) < Len(assigned)

\* ---------------------------------------------------------------------- C7
\* the amount text is not a number after ',' became '.', or the kind is
\* not exactly income or expense
Unacceptable(form) ==
    \/ ~ParseFloat(ReplaceComma(IF "value" \in DOMAIN form THEN form.value ELSE <<>>)).ok
    \/ "type" \notin DOMAIN form
    \/ ("type" \in DOMAIN form /\ form.type /= "income" /\ form.type /= "expense")

\* C7: an add_entry submission with an unparseable amount or a kind other
\* than income and expense leaves the store unchanged: nothing inserted,
\* nothing changed, no id consumed.
C7_RejectedLeavesStore ==
    [][\A form \in Forms, today \in ClockDates :
          (Unacceptable(form) /\ add_entry(form, today)) =>
             (rows' = rows /\ seq' = seq /\ assigned' = assigned)]_vars

\* a submission was rejected for its kind while the store holds entries
C7_Witness ==
    /\ response = Redirect("add_entry: type not in")
    /\ rows /= {}
    /\ seq = Cardinality(rows)

\* ---------------------------------------------------------------------- C8
\* C8: every persisted entry has type income or expense.
C8_TypePersisted == \A r \in rows : r.type = "income" \/ r.type = "expense"

\* both kinds are stored, with and without a category
C8_Witness ==
    /\ \E r \in rows : r.type = "income" /\ r.category = "Lanches"
    /\ \E r \in rows : r.type = "expense" /\ r.category = "Outros"
    /\ \E r \in rows : r.type = "income" /\ r.category = None

\* ---------------------------------------------------------------------- C9
WellFormedDate(d) ==
    /\ Len(d) = 10
    /\ \A i \in {1, 2, 3, 4, 6, 7, 9, 10} : IsDigit(d[i])
    /\ d[5] = "-"
    /\ d[8] = "-"

\* C9 as stated: every persisted entry's date is a well-formed YYYY-MM-DD
\* text, so its first 7 characters are a YYYY-MM month key.
C9_DateWellFormed == \A r \in rows : WellFormedDate(r.date)

====
